---- MODULE Spec2Model ----
(***************************************************************************)
(* Model of app.py: the text preprocessor (normalizer, negation-aware      *)
(* tokenizer, antonym resolver), predict_emotion, and the Streamlit        *)
(* Analyze / Submit-Feedback session cycle.                                *)
(*                                                                         *)
(* A Python str is a sequence of one-character strings; a word is such a   *)
(* sequence without whitespace.                                            *)
(***************************************************************************)
EXTENDS Integers, Sequences, FiniteSets, TLC

VARIABLES
    \* ---- process-wide environment, fixed at start-up
    hashorder,          \* iteration order of a str set under this process's hash seed
    model,              \* vectorizer+classifier artifact: feature vector -> probabilities
    classes,            \* label_encoder.classes_
    \* ---- one call of preprocess_text, statement by statement
    raw_is_str,         \* isinstance(text, str) of the argument
    raw,                \* the argument
    text,               \* local `text`
    words,              \* local `words`
    widx,               \* number of words the for-loop has consumed
    negate,             \* local `negate`
    processed_words,    \* local `processed_words`
    pc,                 \* next statement of preprocess_text
    result,             \* the returned string
    steps,              \* history: one record per loop iteration
    \* ---- the Streamlit session
    user_input,             \* the text area's content
    last_user_input,        \* st.session_state.last_user_input
    last_predicted_emotion, \* st.session_state.last_predicted_emotion (<<>> while unset)
    feedback_submitted,     \* st.session_state.feedback_submitted
    feedback_radio,         \* widget value, key "feedback_radio"
    correction_select,      \* widget value, key "correction_select"
    page,                   \* widgets the last script run rendered
    collection,             \* the MongoDB collection: records inserted so far
    run,                    \* history: what the last script run did
    analysis,               \* history: what the last successful Analyze stored
    saves_since_analyze     \* history: save_feedback calls since that Analyze

envvars == <<hashorder, model, classes>>
prevars == <<raw_is_str, raw, text, words, widx, negate, processed_words, pc, result, steps>>
uivars  == <<user_input, last_user_input, last_predicted_emotion, feedback_submitted,
             feedback_radio, correction_select, page, collection, run, analysis,
             saves_since_analyze>>
vars    == <<envvars, prevars, uivars>>

-----------------------------------------------------------------------------
(* Bounds of the model *)

\* longest raw text enumerated character by character
MaxLen == 3
\* longest raw text enumerated word by word
MaxWords == 3
\* records the feedback collection may hold before Submit is no longer explored
MaxSaves == 2

-----------------------------------------------------------------------------
(* Characters *)

LowerLetters == <<"a","b","c","d","e","f","g","h","i","j","k","l","m",
                  "n","o","p","q","r","s","t","u","v","w","x","y","z">>
UpperLetters == <<"A","B","C","D","E","F","G","H","I","J","K","L","M",
                  "N","O","P","Q","R","S","T","U","V","W","X","Y","Z">>

Range(s) == {s[i] : i \in DOMAIN s}

IsLower(c) == c \in Range(LowerLetters)
IsUpper(c) == c \in Range(UpperLetters)

\* the characters Python's str.isspace / regex \s accept (those the model uses)
Whitespace == {" ", "\t", "\n"}

\* one emoji glyph, U+1F44D THUMBS UP SIGN
ThumbsUp == "U+1F44D"

\* emoji.demojize's name for a glyph, with its ':' delimiters; <<c>> for any other character
EmojiName(c) ==
    IF c = ThumbsUp
    THEN <<":","t","h","u","m","b","s","_","u","p",":">>
    ELSE <<c>>

\* str.lower on one character
LowerChar(c) ==
    IF IsUpper(c)
    THEN LowerLetters[CHOOSE i \in DOMAIN UpperLetters : UpperLetters[i] = c]
    ELSE c

\* str.upper on one character
UpperChar(c) ==
    IF IsLower(c)
    THEN UpperLetters[CHOOSE i \in DOMAIN LowerLetters : LowerLetters[i] = c]
    ELSE c

-----------------------------------------------------------------------------
(* String primitives *)

\* str.lower
Lower(s) == [i \in DOMAIN s |-> LowerChar(s[i])]

\* str.capitalize: first character upper-cased, the rest lower-cased
Capitalize(s) ==
    [i \in DOMAIN s |-> IF i = 1 THEN UpperChar(s[i]) ELSE LowerChar(s[i])]

RECURSIVE SplitFrom(_, _)
\* str.split(): cur is the word being read (<<>> when between words)
SplitFrom(s, cur) ==
    IF s = <<>>
    THEN IF cur = <<>> THEN <<>> ELSE <<cur>>
    ELSE IF Head(s) \in Whitespace
         THEN IF cur = <<>>
              THEN SplitFrom(Tail(s), <<>>)
              ELSE <<cur>> \o SplitFrom(Tail(s), <<>>)
         ELSE SplitFrom(Tail(s), Append(cur, Head(s)))

Split(s) == SplitFrom(s, <<>>)

RECURSIVE Join(_)
\* ' '.join(ws)
Join(ws) ==
    IF ws = <<>> THEN <<>>
    ELSE IF Len(ws) = 1 THEN ws[1]
    ELSE ws[1] \o <<" ">> \o Join(Tail(ws))

RECURSIVE LStrip(_)
LStrip(s) ==
    IF s # <<>> /\ Head(s) \in Whitespace THEN LStrip(Tail(s)) ELSE s

RECURSIVE RStrip(_)
RStrip(s) ==
    IF s # <<>> /\ s[Len(s)] \in Whitespace THEN RStrip(SubSeq(s, 1, Len(s) - 1)) ELSE s

\* str.strip()
Strip(s) == RStrip(LStrip(s))

-----------------------------------------------------------------------------
(* The normalizer: lines 60-63 of preprocess_text *)

RECURSIVE demojize(_)
\* emoji.demojize(text)
demojize(s) ==
    IF s = <<>> THEN <<>> ELSE EmojiName(Head(s)) \o demojize(Tail(s))

\* text.replace(":", " ")
replace_colon(s) == [i \in DOMAIN s |-> IF s[i] = ":" THEN " " ELSE s[i]]

\* text.replace(":", " ").lower()
replace_lower(s) == Lower(replace_colon(s))

RECURSIVE camel_split_ignorecase(_)
\* the same substitution compiled with re.IGNORECASE
camel_split_ignorecase(s) ==
    IF Len(s) < 2 THEN s
    ELSE IF (IsLower(s[1]) \/ IsUpper(s[1])) /\ (IsLower(s[2]) \/ IsUpper(s[2]))
         THEN <<s[1], " ", s[2]>> \o camel_split_ignorecase(Tail(Tail(s)))
         ELSE <<s[1]>> \o camel_split_ignorecase(Tail(s))

RECURSIVE camel_split(_)
\* re.sub(r"([a-z])([A-Z])", r"\1 \2", text): matches do not overlap
camel_split(s) ==
    IF Len(s) < 2 THEN s
    ELSE IF IsLower(s[1]) /\ IsUpper(s[2])
         THEN <<s[1], " ", s[2]>> \o camel_split(Tail(Tail(s)))
         ELSE <<s[1]>> \o camel_split(Tail(s))

\* the character class [a-z\s]
KeptChar(c) == IsLower(c) \/ c \in Whitespace

RECURSIVE strip_chars_keep_word(_)
\* the substitution with the class [^\w\s]: digits and '_' survive
strip_chars_keep_word(s) ==
    IF s = <<>> THEN <<>>
    ELSE IF KeptChar(Head(s)) \/ Head(s) \in {"0","1","2","3","4","5","6","7","8","9","_"}
         THEN <<Head(s)>> \o strip_chars_keep_word(Tail(s))
         ELSE strip_chars_keep_word(Tail(s))

RECURSIVE strip_chars(_)
\* re.sub(r'[^a-z\s]', '', text)
strip_chars(s) ==
    IF s = <<>> THEN <<>>
    ELSE IF KeptChar(Head(s))
         THEN <<Head(s)>> \o strip_chars(Tail(s))
         ELSE strip_chars(Tail(s))

\* lines 60-63 in order
normalize(s) == strip_chars(camel_split(replace_lower(demojize(s))))

-----------------------------------------------------------------------------
(* Words *)

w_not     == <<"n","o","t">>
w_no      == <<"n","o">>
w_never   == <<"n","e","v","e","r">>
w_none    == <<"n","o","n","e">>
w_nothing == <<"n","o","t","h","i","n","g">>
w_nobody  == <<"n","o","b","o","d","y">>
w_neither == <<"n","e","i","t","h","e","r">>
w_nowhere == <<"n","o","w","h","e","r","e">>
w_without == <<"w","i","t","h","o","u","t">>
w_the     == <<"t","h","e">>
w_i       == <<"i">>
w_am      == <<"a","m">>
w_good    == <<"g","o","o","d">>
w_bad     == <<"b","a","d">>
w_evil    == <<"e","v","i","l">>
w_happy   == <<"h","a","p","p","y">>
w_unhappy == <<"u","n","h","a","p","p","y">>
w_always  == <<"a","l","w","a","y","s">>
w_cry     == <<"c","r","y">>
w_laugh   == <<"l","a","u","g","h">>
w_best    == <<"b","e","s","t">>
w_worst   == <<"w","o","r","s","t">>
w_movie   == <<"m","o","v","i","e">>

\* line 47
negation_words ==
    {w_not, w_no, w_never, w_none, w_nothing, w_nobody, w_neither, w_nowhere, w_without}

\* sklearn's ENGLISH_STOP_WORDS, the members among the words of the model
ENGLISH_STOP_WORDS ==
    {w_not, w_no, w_never, w_none, w_nothing, w_nobody, w_neither, w_nowhere, w_without,
     w_the, w_i, w_am, w_always, w_cry}

\* wordnet.synsets(word): a sequence of synsets, each a sequence of lemmas, each
\* lemma given by its lemma.antonyms() (a sequence of names). An excerpt of WordNet.
wordnet_synsets(word) ==
    CASE word = w_good   -> << << <<>> >>, << <<w_evil>> >>, << <<w_bad>> >> >>
      [] word = w_happy  -> << << <<w_unhappy>> >> >>
      [] word = w_always -> << << <<w_never>> >> >>
      [] word = w_cry    -> << << <<>> >>, << <<>>, <<w_laugh>> >> >>
      [] word = w_best   -> << << <<>> >>, << <<w_worst>> >> >>
      [] OTHER           -> <<>>

\* every name wordnet_synsets can return, lower-cased
AntonymNames == <<w_evil, w_bad, w_unhappy, w_never, w_laugh, w_worst>>

\* iteration orders of a set of those names; which one a process gets depends on
\* its string-hash seed
HashOrders ==
    { AntonymNames,
      <<w_bad, w_evil, w_unhappy, w_never, w_laugh, w_worst>> }

-----------------------------------------------------------------------------
(* get_antonym, lines 49-55 *)

RECURSIVE LemmaAntonyms(_)
\* lines 52-54 over one synset: the names added to `antonyms`, in order
LemmaAntonyms(lemmas) ==
    IF lemmas = <<>> THEN <<>>
    ELSE (IF Head(lemmas) # <<>> THEN <<Lower(Head(lemmas)[1])>> ELSE <<>>)
         \o LemmaAntonyms(Tail(lemmas))

RECURSIVE SynsetAntonyms(_)
\* lines 51-54: every name added to `antonyms`, in traversal order
SynsetAntonyms(syns) ==
    IF syns = <<>> THEN <<>>
    ELSE LemmaAntonyms(Head(syns)) \o SynsetAntonyms(Tail(syns))

\* next(iter(S), None) for a set S of names; None is <<>>
NextIter(S, order) ==
    IF S = {} THEN <<>>
    ELSE order[CHOOSE i \in DOMAIN order :
                  /\ order[i] \in S
                  /\ \A j \in DOMAIN order : order[j] \in S => i <= j]

\* get_antonym(word) in a process whose sets iterate in `order`
get_antonym_in(word, order) ==
    NextIter(Range(SynsetAntonyms(wordnet_synsets(word))), order)

get_antonym(word) == get_antonym_in(word, hashorder)

-----------------------------------------------------------------------------
(* The tokenizer loop, lines 69-82 *)

neg_prefix == <<"n","e","g","_">>

\* lines 74-78 without the stop-word test on the antonym
negated_token_any_antonym(word) ==
    LET antonym == get_antonym(word)
    IN  IF antonym # <<>> THEN antonym ELSE neg_prefix \o word

\* lines 74-78: the token appended for a word met while negate is True
negated_token(word) ==
    LET antonym == get_antonym(word)
    IN  IF antonym # <<>> /\ antonym \notin ENGLISH_STOP_WORDS
        THEN antonym
        ELSE neg_prefix \o word

\* lines 81-82: the tokens appended for a word met while negate is False
plain_tokens(word) ==
    IF word \notin ENGLISH_STOP_WORDS THEN <<word>> ELSE <<>>

\* which branch of the loop body a word takes
branch_of(word, neg) ==
    IF word \in negation_words THEN "trigger"
    ELSE IF neg THEN "negated"
    ELSE "plain"

\* the loop body without line 79
negate_after_no_reset(word, neg) ==
    IF word \in negation_words THEN TRUE ELSE neg

\* `negate` after the loop body ran on a word (lines 71 and 79)
negate_after(word, neg) ==
    CASE branch_of(word, neg) = "trigger" -> TRUE
      [] branch_of(word, neg) = "negated" -> FALSE
      [] OTHER                            -> neg

\* the loop body with the stop-word filter ahead of the negate test
emitted_filter_first(word, neg) ==
    IF word \in ENGLISH_STOP_WORDS THEN <<>>
    ELSE IF neg THEN <<negated_token(word)>>
    ELSE <<word>>

\* the tokens the loop body appends for a word
emitted(word, neg) ==
    CASE branch_of(word, neg) = "trigger" -> <<>>
      [] branch_of(word, neg) = "negated" -> <<negated_token(word)>>
      [] OTHER                            -> plain_tokens(word)

RECURSIVE tokenize_from(_, _, _)
\* lines 69-82 run to completion from (negate, processed_words)
tokenize_from(ws, neg, acc) ==
    IF ws = <<>> THEN acc
    ELSE tokenize_from(Tail(ws), negate_after(Head(ws), neg), acc \o emitted(Head(ws), neg))

\* preprocess_text(text) for a str argument, lines 60-84
preprocess_text(s) == Join(tokenize_from(Split(normalize(s)), FALSE, <<>>))

-----------------------------------------------------------------------------
(* Inputs of preprocess_text *)

\* the characters raw texts are enumerated over: a lower-case letter, an upper-case
\* letter, a digit, the emoji delimiter, two kinds of whitespace, an emoji
Alphabet == {"a", "B", "1", ":", " ", "\t", ThumbsUp}

\* the words raw texts are enumerated over
Vocab == {w_not, w_never, w_the, w_good, w_always, w_cry, w_movie}

SeqsUpTo(S, n) == UNION {[1..k -> S] : k \in 0..n}

CharTexts == SeqsUpTo(Alphabet, MaxLen)
WordTexts == {Join(ws) : ws \in SeqsUpTo(Vocab, MaxWords)}

txt_not_the_best_movie == Join(<<w_not, w_the, w_best, w_movie>>)
txt_i_am_not_happy     == Join(<<<<"I">>, w_am, w_not, w_happy>>)
txt_not_good           == Join(<<w_not, w_good>>)

RawTexts == CharTexts \cup WordTexts \cup {txt_not_the_best_movie, txt_i_am_not_happy}

-----------------------------------------------------------------------------
(* The environment a process starts with, lines 27-35 *)

\* a pair of artifacts trained together: classes is label_encoder.classes_, predict
\* maps the vectorizer's output to one probability (in percent) per class
l_anger    == <<"a","n","g","e","r">>
l_fear     == <<"f","e","a","r">>
l_joy      == <<"j","o","y">>
l_love     == <<"l","o","v","e">>
l_sad      == <<"s","a","d">>
l_surprise == <<"s","u","r","p","r","i","s","e">>
l_disgust  == <<"d","i","s","g","u","s","t">>

\* the fitted vocabulary of the vectorizer, in column order
vectorizer_vocabulary == <<w_bad, w_evil, w_laugh>>

\* the feature vectors the texts of the model produce
FeatureVectors == [1..Len(vectorizer_vocabulary) -> 0..1]

\* the probabilities a model gives a feature vector: tie when no term occurs, else
\* by_term[i] for the first term i that does
Predict(tie, by_term) ==
    [v \in FeatureVectors |->
        IF \A i \in DOMAIN v : v[i] = 0 THEN tie
        ELSE by_term[CHOOSE i \in DOMAIN v : v[i] = 1 /\ \A j \in 1..(i - 1) : v[j] = 0]]

Artifacts ==
    { [classes |-> <<l_anger, l_fear, l_joy>>,
       predict |-> Predict(<<20, 40, 40>>, <<<<70, 20, 10>>, <<15, 80, 5>>, <<10, 20, 70>>>>)],
      [classes |-> <<l_love, l_sad, l_surprise>>,
       predict |-> Predict(<<40, 40, 20>>, <<<<10, 80, 10>>, <<25, 25, 50>>, <<60, 30, 10>>>>)],
      [classes |-> <<<<"J","o","y">>, <<"S","A","D">>, l_disgust>>,
       predict |-> Predict(<<34, 33, 33>>, <<<<10, 10, 80>>, <<5, 90, 5>>, <<50, 25, 25>>>>)] }

EnvInit ==
    /\ hashorder \in HashOrders
    /\ \E a \in Artifacts : model = a.predict /\ classes = a.classes

-----------------------------------------------------------------------------
(* preprocess_text statement by statement, lines 57-84 *)

PreIdle ==
    /\ raw_is_str = TRUE /\ raw = <<>> /\ text = <<>> /\ words = <<>> /\ widx = 0
    /\ negate = FALSE /\ processed_words = <<>> /\ pc = "idle" /\ result = <<>>
    /\ steps = <<>>

PreInit ==
    /\ raw_is_str \in BOOLEAN
    /\ raw \in (IF raw_is_str THEN RawTexts ELSE {<<>>})
    /\ text = raw /\ words = <<>> /\ widx = 0
    /\ negate = FALSE /\ processed_words = <<>> /\ pc = "isinstance" /\ result = <<>>
    /\ steps = <<>>

\* lines 58-59
PreNotStr ==
    /\ pc = "isinstance" /\ ~raw_is_str
    /\ result' = <<>> /\ pc' = "done"
    /\ UNCHANGED <<raw_is_str, raw, text, words, widx, negate, processed_words, steps>>

\* line 60
PreDemojize ==
    /\ pc = "isinstance" /\ raw_is_str
    /\ text' = demojize(text) /\ pc' = "replace_lower"
    /\ UNCHANGED <<raw_is_str, raw, words, widx, negate, processed_words, result, steps>>

\* line 61
PreReplaceLower ==
    /\ pc = "replace_lower"
    /\ text' = replace_lower(text) /\ pc' = "camel_split"
    /\ UNCHANGED <<raw_is_str, raw, words, widx, negate, processed_words, result, steps>>

\* line 62
PreCamelSplit ==
    /\ pc = "camel_split"
    /\ text' = camel_split(text) /\ pc' = "strip_chars"
    /\ UNCHANGED <<raw_is_str, raw, words, widx, negate, processed_words, result, steps>>

\* line 63
PreStripChars ==
    /\ pc = "strip_chars"
    /\ text' = strip_chars(text) /\ pc' = "split"
    /\ UNCHANGED <<raw_is_str, raw, words, widx, negate, processed_words, result, steps>>

\* lines 65-67
PreSplit ==
    /\ pc = "split"
    /\ words' = Split(text) /\ processed_words' = <<>> /\ negate' = FALSE
    /\ widx' = 0 /\ pc' = "loop"
    /\ UNCHANGED <<raw_is_str, raw, text, result, steps>>

\* one iteration of the for-loop on the next word, taking the given branch
LoopBody(branch) ==
    /\ pc = "loop" /\ widx < Len(words)
    /\ LET word == words[widx + 1]
       IN  /\ branch_of(word, negate) = branch
           /\ negate' = negate_after(word, negate)
           /\ processed_words' = processed_words \o emitted(word, negate)
           /\ steps' = Append(steps, [word |-> word, branch |-> branch,
                                      before |-> negate,
                                      tokens |-> emitted(word, negate)])
    /\ widx' = widx + 1
    /\ UNCHANGED <<raw_is_str, raw, text, words, pc, result>>

\* lines 70-72
LoopTrigger == LoopBody("trigger")

\* lines 73-79
LoopNegated == LoopBody("negated")

\* lines 80-82
LoopPlain == LoopBody("plain")

\* line 84
PreReturn ==
    /\ pc = "loop" /\ widx = Len(words)
    /\ result' = Join(processed_words) /\ pc' = "done"
    /\ UNCHANGED <<raw_is_str, raw, text, words, widx, negate, processed_words, steps>>

-----------------------------------------------------------------------------
(* predict_emotion, lines 86-93 *)

\* lines 38-45
sentiment_mapping ==
    [k \in {l_sad, l_fear, l_anger, l_love, l_joy, l_surprise} |->
        CASE k \in {l_sad, l_fear, l_anger} -> "Negative"
          [] k \in {l_love, l_joy}          -> "Positive"
          [] OTHER                          -> "Neutral"]

\* dict.get(key, default)
DictGet(d, key, default) == IF key \in DOMAIN d THEN d[key] ELSE default

\* vectorizer.transform([clean_text]).toarray(): one column per vocabulary term,
\* non-zero when the term occurs in the text
vectorizer_transform(clean) ==
    [i \in 1..Len(vectorizer_vocabulary) |->
        IF vectorizer_vocabulary[i] \in Range(Split(clean)) THEN 1 ELSE 0]

\* np.argmax: the first index of the greatest entry
argmax(v) ==
    CHOOSE i \in DOMAIN v :
        /\ \A j \in DOMAIN v : v[j] <= v[i]
        /\ \A j \in DOMAIN v : v[j] = v[i] => i <= j

\* line 92 without .lower()
sentiment_of_no_lower(predicted_emotion) ==
    DictGet(sentiment_mapping, predicted_emotion, "Neutral")

\* line 92
sentiment_of(predicted_emotion) ==
    DictGet(sentiment_mapping, Lower(predicted_emotion), "Neutral")

\* lines 87-93
predict_emotion(s) ==
    LET clean_text        == preprocess_text(s)
        vectorized_text   == vectorizer_transform(clean_text)
        prediction        == model[vectorized_text]
        predicted_index   == argmax(prediction)
        predicted_emotion == classes[predicted_index]
    IN  [emotion   |-> Capitalize(predicted_emotion),
         sentiment |-> sentiment_of(predicted_emotion),
         probs     |-> prediction]

-----------------------------------------------------------------------------
(* The Streamlit script, lines 131-197: one action is one run of the script *)

\* the texts the user types into the text area
UITexts ==
    { <<>>, <<" ", "\t">>, txt_not_good, Join(<<w_not, w_cry>>) }

\* line 183
CorrectionOptions == <<"Love", "Fear", "Joy", "Surprise", "Sad", "Anger", "Neutral">>

\* the options the user picks among
UserPicks == {"Love", "Neutral"}

NoRun ==
    [click |-> "none", predicted |-> FALSE, arg |-> <<>>, warning |-> FALSE,
     handler |-> "none", saves |-> 0, emotion |-> <<>>, sentiment |-> "none"]

\* line 139 without .strip()
is_empty(s) == s = <<>>

\* line 139
is_blank(s) == Strip(s) = <<>>

\* lines 97-105 called from line 187: the documents inserted by a Correction submit
correction_records(txt, predicted, actual) ==
    << [Text |-> txt, Predicted |-> predicted, Actual |-> actual] >>

\* lines 191-195 with the call of line 193 in place
confirmed_records_saved(txt, predicted) ==
    << [Text |-> txt, Predicted |-> predicted, Actual |-> predicted] >>

\* lines 191-195: the documents inserted by a Confirmed submit (line 193 is commented out)
confirmed_records(txt, predicted) == <<>>

\* the submit handlers without lines 188 and 194
submitted_after_unset(handler) == FALSE

\* lines 188 and 194: feedback_submitted after a submit handler ran
submitted_after(handler) == TRUE

\* One run of the script. click is the button whose press caused the run ("none"
\* for a widget change); ui, radio_state and select_state are the widget values the
\* browser sends.
\* A button returns True only in the run its press caused, and only if that run
\* renders it; a keyed widget that the previous run did not render has lost its
\* value and returns its default. The buttons rendered by a run stay on the page,
\* and can be pressed, until the next run.
Script(click, ui, radio_state, select_state) ==
    LET \* lines 138-146
        analyzing  == click = "analyze"
        blank      == is_blank(ui)
        predicting == analyzing /\ ~blank
        p          == IF predicting THEN predict_emotion(ui)
                      ELSE [emotion |-> <<>>, sentiment |-> "none", probs |-> <<>>]
        lui        == IF predicting THEN ui ELSE last_user_input
        lpe        == IF predicting THEN p.emotion ELSE last_predicted_emotion
        fs         == IF predicting THEN FALSE ELSE feedback_submitted
        \* lines 173-197
        section    == lui # <<>>
        radio_on   == section /\ ~fs
        feedback   == IF "radio" \in page THEN radio_state ELSE "Yes"
        select_on  == radio_on /\ feedback = "No"
        correct    == IF "select" \in page THEN select_state ELSE CorrectionOptions[1]
        corr_btn   == select_on
        conf_btn   == radio_on /\ feedback # "No"
        corr_hit   == corr_btn /\ click = "correction"
        conf_hit   == conf_btn /\ click = "confirmed"
        handler    == IF corr_hit THEN "correction"
                      ELSE IF conf_hit THEN "confirmed" ELSE "none"
        inserted   == IF corr_hit THEN correction_records(lui, lpe, correct)
                      ELSE IF conf_hit THEN confirmed_records(lui, lpe) ELSE <<>>
    IN  /\ user_input' = ui
        /\ last_user_input' = lui
        /\ last_predicted_emotion' = lpe
        /\ feedback_submitted' = IF handler # "none" THEN submitted_after(handler) ELSE fs
        /\ feedback_radio' = IF radio_on THEN feedback ELSE "Yes"
        /\ correction_select' = IF select_on THEN correct ELSE CorrectionOptions[1]
        /\ page' = (IF radio_on THEN {"radio"} ELSE {})
                   \cup (IF select_on THEN {"select"} ELSE {})
                   \cup (IF corr_btn THEN {"correction"} ELSE {})
                   \cup (IF conf_btn THEN {"confirmed"} ELSE {})
        /\ collection' = collection \o inserted
        /\ run' = [click |-> click, predicted |-> predicting,
                   arg |-> IF predicting THEN ui ELSE <<>>,
                   warning |-> analyzing /\ blank,
                   handler |-> handler, saves |-> Len(inserted),
                   emotion |-> p.emotion, sentiment |-> p.sentiment]
        /\ analysis' = IF predicting THEN [text |-> ui, emotion |-> p.emotion] ELSE analysis
        /\ saves_since_analyze' = IF predicting THEN 0
                                  ELSE saves_since_analyze + Len(inserted)

UIIdle ==
    /\ user_input = <<>> /\ last_user_input = <<>> /\ last_predicted_emotion = <<>>
    /\ feedback_submitted = FALSE /\ feedback_radio = "Yes"
    /\ correction_select = CorrectionOptions[1] /\ page = {} /\ collection = <<>>
    /\ run = NoRun /\ analysis = [text |-> <<>>, emotion |-> <<>>]
    /\ saves_since_analyze = 0

\* the user edits the text area
EditText ==
    \E t \in UITexts :
        /\ t # user_input
        /\ Script("none", t, feedback_radio, correction_select)

\* the user presses Analyze and the input is blank, lines 139-140
AnalyzeBlank ==
    /\ is_blank(user_input)
    /\ Script("analyze", user_input, feedback_radio, correction_select)

\* the user presses Analyze and the input is not blank, lines 141-170
AnalyzeText ==
    /\ ~is_blank(user_input)
    /\ Script("analyze", user_input, feedback_radio, correction_select)

\* the user changes the radio, line 178
ChangeRadio ==
    /\ "radio" \in page
    /\ \E v \in {"Yes", "No"} :
        /\ v # feedback_radio
        /\ Script("none", user_input, v, correction_select)

\* the user changes the selectbox, lines 181-185
ChangeSelect ==
    /\ "select" \in page
    /\ \E v \in UserPicks :
        /\ v # correction_select
        /\ Script("none", user_input, feedback_radio, v)

\* the user presses "Submit Feedback (Correction)", lines 186-189
ClickCorrection ==
    /\ "correction" \in page
    /\ Len(collection) < MaxSaves
    /\ Script("correction", user_input, feedback_radio, correction_select)

\* the user presses "Submit Feedback (Confirmed)", lines 191-195
ClickConfirmed ==
    /\ "confirmed" \in page
    /\ Script("confirmed", user_input, feedback_radio, correction_select)

-----------------------------------------------------------------------------
(* Specifications *)

\* one call of preprocess_text on any input
InitPre == EnvInit /\ PreInit /\ UIIdle

NextPre ==
    \/ (PreNotStr /\ UNCHANGED <<envvars, uivars>>)
    \/ (PreDemojize /\ UNCHANGED <<envvars, uivars>>)
    \/ (PreReplaceLower /\ UNCHANGED <<envvars, uivars>>)
    \/ (PreCamelSplit /\ UNCHANGED <<envvars, uivars>>)
    \/ (PreStripChars /\ UNCHANGED <<envvars, uivars>>)
    \/ (PreSplit /\ UNCHANGED <<envvars, uivars>>)
    \/ (LoopTrigger /\ UNCHANGED <<envvars, uivars>>)
    \/ (LoopNegated /\ UNCHANGED <<envvars, uivars>>)
    \/ (LoopPlain /\ UNCHANGED <<envvars, uivars>>)
    \/ (PreReturn /\ UNCHANGED <<envvars, uivars>>)

SpecPre == InitPre /\ [][NextPre]_vars

\* one browser session of the app
Init == EnvInit /\ PreIdle /\ UIIdle

Next ==
    \/ (EditText /\ UNCHANGED <<envvars, prevars>>)
    \/ (AnalyzeBlank /\ UNCHANGED <<envvars, prevars>>)
    \/ (AnalyzeText /\ UNCHANGED <<envvars, prevars>>)
    \/ (ChangeRadio /\ UNCHANGED <<envvars, prevars>>)
    \/ (ChangeSelect /\ UNCHANGED <<envvars, prevars>>)
    \/ (ClickCorrection /\ UNCHANGED <<envvars, prevars>>)
    \/ (ClickConfirmed /\ UNCHANGED <<envvars, prevars>>)

Spec == Init /\ [][Next]_vars


-----------------------------------------------------------------------------
(* Properties of preprocess_text, checked under SpecPre *)

\* the statements after line 63: `text` holds the normalizer's output
Normalized == raw_is_str /\ pc \in {"split", "loop", "done"}

\* C1: negation scope is exactly one word. The flag is true when a word is met
\* only if the word just before it is a trigger, a word takes the negated branch
\* only then, once a non-trigger word has been processed the flag is false, and a
\* non-trigger word that follows a non-trigger word takes the non-negated branch.
C1_NegationScopeOneWord ==
    /\ \A k \in DOMAIN steps :
        /\ steps[k].word = words[k]
        /\ steps[k].before => (k > 1 /\ words[k - 1] \in negation_words)
        /\ steps[k].branch = "negated" =>
               (k > 1 /\ words[k - 1] \in negation_words /\ words[k] \notin negation_words)
        /\ (k > 1 /\ words[k - 1] \notin negation_words /\ words[k] \notin negation_words)
               => steps[k].branch = "plain"
    /\ (pc \in {"loop", "done"} /\ widx > 0 /\ words[widx] \notin negation_words)
           => negate = FALSE

\* a negated word was followed by a word that went through the non-negated branch
C1_Witness ==
    /\ pc = "done"
    /\ \E k \in DOMAIN steps :
        /\ k + 1 \in DOMAIN steps
        /\ steps[k].branch = "negated"
        /\ steps[k + 1].branch = "plain"
        /\ steps[k + 1].tokens = <<steps[k + 1].word>>

\* C2: a non-trigger word met while negate is true appends exactly one token, stop
\* word or not: its antonym when there is one that is no stop word, else neg_ + word.
\* The stop-word filter acts only on words met while negate is false, and
\* "not the best movie" gives "neg_the best movie".
C2_NegatedWordEmitsOneToken ==
    /\ \A k \in DOMAIN steps :
        LET w == steps[k].word
            a == get_antonym(w)
        IN  /\ (steps[k].before /\ w \notin negation_words) =>
                   /\ Len(steps[k].tokens) = 1
                   /\ steps[k].tokens[1] =
                          IF a # <<>> /\ a \notin ENGLISH_STOP_WORDS THEN a
                          ELSE <<"n","e","g","_">> \o w
            /\ (~steps[k].before /\ w \notin negation_words) =>
                   steps[k].tokens = IF w \in ENGLISH_STOP_WORDS THEN <<>> ELSE <<w>>
    /\ (pc = "done" /\ raw = txt_not_the_best_movie) =>
           result = Join(<<<<"n","e","g","_">> \o w_the, w_best, w_movie>>)

\* "not the best movie" has been processed, the stop word "the" under negation
C2_Witness ==
    /\ pc = "done"
    /\ raw = txt_not_the_best_movie
    /\ Len(steps) = 4
    /\ steps[2].before /\ steps[2].word \in ENGLISH_STOP_WORDS
    /\ Len(steps[2].tokens) = 1

\* C3: no trigger word is ever among the emitted tokens or the tokens of the
\* returned string, and a text whose words are all triggers returns the empty string.
C3_TriggerNeverEmitted ==
    /\ \A i \in DOMAIN processed_words : processed_words[i] \notin negation_words
    /\ pc = "done" =>
        /\ \A t \in Range(Split(result)) : t \notin negation_words
        /\ (\A i \in DOMAIN words : words[i] \in negation_words) => result = <<>>

\* a trigger was followed by a word whose only antonym is itself a trigger
C3_Witness ==
    /\ pc = "done"
    /\ \E k \in DOMAIN steps :
        /\ steps[k].branch = "negated"
        /\ get_antonym(steps[k].word) \in negation_words
    /\ result # <<>>

\* C4 as stated: the normalizer's output holds only a-z and the space character,
\* and no two adjacent spaces.
C4_OnlyLowerAndSingleSpaces ==
    Normalized =>
        /\ \A i \in DOMAIN text : IsLower(text[i]) \/ text[i] = " "
        /\ \A i \in DOMAIN text : (i > 1 /\ text[i] = " ") => text[i - 1] # " "

\* C4 as amended: the normalizer's output holds only a-z and whitespace characters.
C4_OnlyLowerAndWhitespace ==
    Normalized =>
        \A i \in DOMAIN text : text[i] \in Range(LowerLetters) \cup {" ", "\t", "\n"}

\* an emoji, a digit and a tab went in; letters and the tab came out
C4_Witness ==
    /\ Normalized
    /\ {ThumbsUp, "1", "\t"} \subseteq Range(raw)
    /\ "\t" \in Range(text)
    /\ \E i \in DOMAIN text : IsLower(text[i])

\* C5 as stated: the antonym used for a negated word is the first one found in
\* synset/lemma traversal order, whatever the process (absent when none is found).
C5_FirstAntonymInTraversalOrder ==
    \A k \in DOMAIN steps :
        steps[k].branch = "negated" =>
            LET found == SynsetAntonyms(wordnet_synsets(steps[k].word))
                first == IF found = <<>> THEN <<>> ELSE found[1]
            IN  /\ get_antonym(steps[k].word) = first
                /\ \A o \in HashOrders : get_antonym_in(steps[k].word, o) = first

\* C9: normalization is idempotent: the normalizer applied to its own output
\* returns it unchanged.
C9_NormalizeIdempotent ==
    Normalized =>
        /\ text = normalize(raw)
        /\ normalize(text) = text

\* a text that normalization changed, to something not empty
C9_Witness ==
    /\ Normalized
    /\ {"B", ":"} \subseteq Range(raw)
    /\ text # raw
    /\ text # <<>>


-----------------------------------------------------------------------------
(* Properties of the session, checked under Spec *)

AllWhitespace(s) == \A i \in DOMAIN s : s[i] \in {" ", "\t", "\n"}

\* C6: the sentiment predict_emotion returns is the table's entry for the
\* lower-cased returned label: Positive for joy and love, Negative for anger, fear
\* and sad, Neutral for every other label.
C6_SentimentFromTable ==
    run.predicted =>
        LET label == Lower(run.emotion)
        IN  /\ run.sentiment =
                   IF label \in {l_joy, l_love} THEN "Positive"
                   ELSE IF label \in {l_anger, l_fear, l_sad} THEN "Negative"
                   ELSE "Neutral"
            /\ run.sentiment \in {"Positive", "Negative", "Neutral"}

\* the label table spells the class "SAD": returned as "Sad", mapped to Negative
C6_Witness ==
    /\ run.predicted
    /\ run.emotion = <<"S","a","d">>
    /\ <<"S","A","D">> \in Range(classes)
    /\ run.sentiment = "Negative"

\* C7 as stated: every run in which the user's feedback is accepted, confirmed or
\* corrected, calls save_feedback exactly once.
C7_EverySubmitSaves ==
    run.handler \in {"correction", "confirmed"} => run.saves = 1

\* C7 as amended: a Correction submit inserts exactly one record, holding the
\* stored text, the stored prediction and the selected emotion, once per
\* prediction; a Confirmed submit inserts nothing.
C7_CorrectionSavesConfirmedDoesNot ==
    /\ run.handler = "correction" =>
        /\ run.saves = 1
        /\ saves_since_analyze = 1
        /\ collection # <<>>
        /\ collection[Len(collection)].Text = last_user_input
        /\ collection[Len(collection)].Predicted = last_predicted_emotion
        /\ collection[Len(collection)].Actual = correction_select
    /\ run.handler = "confirmed" =>
        /\ run.saves = 0
        /\ saves_since_analyze = 0
    /\ saves_since_analyze <= 1

\* one prediction was corrected and saved, a later one confirmed and not saved
C7_Witness ==
    /\ run.handler = "confirmed"
    /\ feedback_submitted
    /\ Len(collection) = 1
    /\ saves_since_analyze = 0

\* C8: an Analyze press on empty or whitespace-only input calls no prediction,
\* shows the warning and leaves the three session fields as they were; any other
\* Analyze press predicts on the input, so predict_emotion only ever gets text
\* with a non-whitespace character.
C8_BlankInputRejected ==
    /\ [](run.predicted => ~AllWhitespace(run.arg))
    /\ [][ run'.click = "analyze" =>
             IF AllWhitespace(user_input')
             THEN /\ ~run'.predicted
                  /\ run'.warning
                  /\ UNCHANGED <<last_user_input, last_predicted_emotion, feedback_submitted>>
             ELSE /\ run'.predicted
                  /\ ~run'.warning
                  /\ run'.arg = user_input' ]_vars

\* Analyze was pressed on whitespace-only input after an earlier prediction
C8_Witness ==
    /\ run.click = "analyze"
    /\ run.warning
    /\ user_input = <<" ", "\t">>
    /\ last_user_input # <<>>
    /\ feedback_submitted

\* C10: at most one save_feedback call between two successful Analyze events;
\* every record written pairs the text and the label stored by the most recent
\* successful Analyze; while feedback_submitted is true no submit handler runs and
\* nothing is written until a successful Analyze sets it to false.
C10_AtMostOneSavePerAnalysis ==
    /\ [](/\ saves_since_analyze <= 1
          /\ run.saves <= 1
          /\ run.saves = 1 =>
                /\ collection[Len(collection)].Text = analysis.text
                /\ collection[Len(collection)].Predicted = analysis.emotion
          /\ last_user_input = analysis.text
          /\ last_predicted_emotion = analysis.emotion)
    /\ [][ /\ Len(collection') = Len(collection) + run'.saves
           /\ (feedback_submitted /\ ~run'.predicted) =>
                 /\ collection' = collection
                 /\ run'.handler = "none"
                 /\ feedback_submitted'
           /\ (~feedback_submitted /\ feedback_submitted') => run'.handler # "none"
           /\ (feedback_submitted /\ ~feedback_submitted') => run'.predicted ]_vars

\* a press on the Submit button still on the page after the feedback was
\* submitted: nothing is written
C10_Witness ==
    /\ run.click = "correction"
    /\ run.handler = "none"
    /\ feedback_submitted
    /\ saves_since_analyze = 1
    /\ Len(collection) = 1

====
